---- MODULE Spec2Model ----
(***************************************************************************)
(* Solana-Treasure-Hunter: a Supervisor (main thread) that spawns a pool   *)
(* of Worker threads; each Worker generates random 12-word phrases, skips  *)
(* those in its tried-set snapshot, asks the network for the balance of    *)
(* the derived wallet and posts the outcome to the Supervisor, which       *)
(* writes it to logs.json / found.json (or, in part_002, to MySQL).        *)
(*                                                                         *)
(* The repository holds five near-identical programs.  The model carries   *)
(* all five; the variable "variant" says which one is running:             *)
(*   "index"    src/index.js          5 workers, files                     *)
(*   "part_001" src/unnamed/part_001  3 workers, files, halts on Found     *)
(*   "part_002" src/unnamed/part_002  1 worker,  MySQL, batched writes     *)
(*   "part_003" src/unnamed/part_003  1 worker,  files                     *)
(*   "part_004" src/unnamed/part_004  20 workers, files, 2 RPC endpoints,  *)
(*                                    halts on Found                       *)
(* Timestamps (new Date().toISOString()) and log lines are left out: no    *)
(* branch of the programs reads them.                                      *)
(***************************************************************************)
EXTENDS Integers, Sequences, FiniteSets, TLC

Variants == {"index", "part_001", "part_002", "part_003", "part_004"}

(* ------------------------------ bounds --------------------------------- *)

\* The pool sizes of the programs (5, 3, 1, 1, 20) are capped at MaxWorkers.
MaxWorkers == 2

\* Math.random() is an input: the Workers draw their index streams from
\* RandomStream(0) .. RandomStream(NumStreams - 1).
NumStreams == 2

\* getBalance calls issued over all runs (first probes and retries).
MaxProbes == 2

\* Math.random() calls of one getRandomSeedPhrase call looked at on its own.
MaxDraws == 5

(* ------------------------- program constants --------------------------- *)

\* getRandomSeedPhrase(seeds, 12)
PhraseLen == 12

\* const batchSize = 100
batchSize == 100

\* const maxAttempts = 5
maxAttempts == 5

\* part_002 checkInitialization: setTimeout(resolve, attempt * 5000)
AttemptSleep == 5000

\* await delay(5000 + Math.floor(Math.random() * 5000)): the fixed part
BackoffBase == 5000

\* ... and the factor of Math.random()
JitterSpan == 5000

numWorkers(v) ==
  CASE v = "index"    -> 5
    [] v = "part_001" -> 3
    [] v = "part_002" -> 1
    [] v = "part_003" -> 1
    [] v = "part_004" -> 20

Min(a, b) == IF a <= b THEN a ELSE b

PoolSize(v) == Min(numWorkers(v), MaxWorkers)

WorkerIds == 1..MaxWorkers

Pool(v) == 1..PoolSize(v)

\* part_004: const RPC_URLS = [ quiknode, api.mainnet-beta ]
RPC_URLS == <<"quiknode", "mainnet-beta">>

\* Bug variant of rpcUrl: every worker is given the first endpoint.
rpcUrlFirst(v, i) == IF v = "part_004" THEN RPC_URLS[1] ELSE "mainnet-beta"

\* part_004: RPC_URLS[i % RPC_URLS.length] for the 0-based loop index i;
\* the other programs use clusterApiUrl('mainnet-beta') everywhere.
rpcUrl(v, i) ==
  IF v = "part_004" THEN RPC_URLS[(i % Len(RPC_URLS)) + 1] ELSE "mainnet-beta"

\* checkWallet: new Connection(rpcUrl, 'confirmed') with the worker's
\* workerData.rpcUrl in part_004, new Connection(clusterApiUrl('mainnet-beta'),
\* 'confirmed') in the other programs.
ConnectionUrl(v, assigned) ==
  IF v = "part_004" THEN assigned ELSE "mainnet-beta"

(* --------------------------- variant switches -------------------------- *)

\* logs.json / found.json are the store (all programs but part_002).
UsesFiles(v) == v # "part_002"

\* The Worker consults a tried-set snapshot before probing (part_002 has none).
Dedups(v) == v # "part_002"

\* checkWallet is a while(true) loop that retries the same phrase after a
\* failed probe (index, part_002, part_003); in part_001 and part_004 it
\* returns after the backoff delay.
RetriesSamePhrase(v) == v \in {"index", "part_002", "part_003"}

\* The Worker calls process.exit(0) after posting saveFoundWallet
\* (every program but part_002).
WorkerExitsOnFound(v) == v # "part_002"

\* The Supervisor's handler terminates every worker and exits on
\* saveFoundWallet (part_001, part_004).
HaltsOnFound(v) == v \in {"part_001", "part_004"}

\* checkWallet derives the keypair inside its try block (index, part_002,
\* part_003) or before it (part_001, part_004).
DerivationInTry(v) == v \in {"index", "part_002", "part_003"}

\* saveFoundWallet wraps its file operations in try/catch (index only).
SwallowsFoundWriteError(v) == v = "index"

(* ------------------------------ vocabulary ----------------------------- *)

\* seed-key-words.txt split on '\n': an input, here twelve one-letter words.
seeds == <<"a", "b", "c", "d", "e", "f", "g", "h", "i", "j", "k", "l">>

\* A seed-key-words.txt of five lines: fewer words than a phrase has.
ShortSeeds == SubSeq(seeds, 1, 5)

\* The word lists the program may be started over.
Vocabularies == {seeds, ShortSeeds}

\* Values Math.random() may return, as <<numerator, denominator>>.
Randoms == {<<0, 1>>, <<999, 1000>>}

\* Math.floor(r * n) for a random number r
FloorTimes(r, n) == (r[1] * n) \div r[2]

\* The most members selectedIndices can have: every member is a
\* Math.floor(Math.random() * seeds.length), a number in 0 .. seeds.length - 1.
MaxSelected(vocab) == Cardinality({i \in 0..(Len(vocab) - 1) : TRUE})

\* while (selectedIndices.size < length) ends only with a set of "length"
\* members; with fewer words than that no stream of random numbers ends it.
LoopExits(vocab, length) == length <= MaxSelected(vocab)

\* The k-th stream of Math.floor(Math.random() * seeds.length) values:
\* k, k, k+1, k+2, ... (mod seeds.length); every stream repeats its first
\* index once, so the Set in getRandomSeedPhrase has a duplicate to absorb.
RandomStream(k) ==
  <<k % Len(seeds), k % Len(seeds)>> \o
    [i \in 1..(Len(seeds) - 1) |-> (k + i) % Len(seeds)]

\* Bug variant of DrawIndices: an array in place of the Set, a drawn index
\* is pushed whether present or not.
RECURSIVE DrawIndicesRepeats(_, _, _)
DrawIndicesRepeats(selected, length, stream) ==
  IF Len(selected) >= length \/ stream = <<>>
  THEN selected
  ELSE DrawIndicesRepeats(Append(selected, Head(stream)), length, Tail(stream))

\* selectedIndices after the while loop, as the insertion-ordered list a
\* JavaScript Set iterates in: a drawn index already present is ignored.
RECURSIVE DrawIndices(_, _, _)
DrawIndices(selected, length, stream) ==
  IF Len(selected) >= length \/ stream = <<>>
  THEN selected
  ELSE LET randomIndex == Head(stream) IN
       IF \E j \in 1..Len(selected) : selected[j] = randomIndex
       THEN DrawIndices(selected, length, Tail(stream))
       ELSE DrawIndices(Append(selected, randomIndex), length, Tail(stream))

\* Array.prototype.join(' ')
RECURSIVE Join(_)
Join(words) ==
  IF words = <<>> THEN ""
  ELSE IF Len(words) = 1 THEN words[1]
  ELSE words[1] \o " " \o Join(Tail(words))

\* Array.from(selectedIndices).map(index => seeds[index]).join(' ')
getRandomSeedPhrase(vocab, length, stream) ==
  LET indices == DrawIndices(<<>>, length, stream) IN
  Join([j \in 1..Len(indices) |-> vocab[indices[j] + 1]])

\* getRandomSeedPhrase(seeds, 12) for each word list and each stream of
\* random numbers the model draws ("" where the call does not return).
GeneratedPhrase ==
  [vocab \in Vocabularies |->
     [k \in 0..(NumStreams - 1) |->
        IF LoopExits(vocab, PhraseLen)
        THEN getRandomSeedPhrase(vocab, PhraseLen, RandomStream(k))
        ELSE ""]]

\* mnemonicToSeed -> derivePath -> Keypair.fromSeed -> toBase58: a fixed
\* deterministic function of the phrase (the cryptography is not modelled).
PubkeyOf(seedPhrase) == "pk(" \o seedPhrase \o ")"

\* Balances getBalance may report (lamports).
Balances == {0, 7}

Range(s) == {s[i] : i \in DOMAIN s}


(* ------------------------------- records ------------------------------- *)

\* A JavaScript object as a function from its (string) keys; {} is <<>>.
EmptyObject == <<>>

\* obj[key] = value
ObjSet(obj, key, value) ==
  [k \in (DOMAIN obj) \cup {key} |-> IF k = key THEN value ELSE obj[k]]

\* Object.keys(obj)
ObjectKeys(obj) == DOMAIN obj

\* The number walletCounter used as a property name.
KeyOf(n) == ToString(n)

\* { seedPhrase, pubkey, balance, timestamp } (timestamp left out)
TriedRecord(seedPhrase, pubkey, balance) ==
  [seedPhrase |-> seedPhrase, pubkey |-> pubkey, balance |-> balance]

\* const foundData = { pubkey, seed, balance }
FoundRecord(pubkey, seed, balance) ==
  [pubkey |-> pubkey, seed |-> seed, balance |-> balance]

\* parentPort.postMessage({ type: 'saveTriedSet', seedPhrase, pubkey, balance })
TriedMsg(seedPhrase, balance) ==
  [type |-> "saveTriedSet", seedPhrase |-> seedPhrase,
   pubkey |-> PubkeyOf(seedPhrase), balance |-> balance]

\* parentPort.postMessage({ type: 'saveFoundWallet', pubkey, seedPhrase, balance })
FoundMsg(seedPhrase, balance) ==
  [type |-> "saveFoundWallet", seedPhrase |-> seedPhrase,
   pubkey |-> PubkeyOf(seedPhrase), balance |-> balance]

\* logs.json: absent or blank (present is what the code tests: existsSync
\* and readFileSync(...).trim() !== ''), or { triedWallets, walletCounter,
\* lastUpdated }, or text that is not JSON (json is FALSE: JSON.parse throws).
NoLogs ==
  [present |-> FALSE, json |-> TRUE, triedWallets |-> EmptyObject,
   walletCounter |-> 0]

\* logs.json cut short by a write that failed part way: no record can be read.
CutLogs ==
  [present |-> TRUE, json |-> FALSE, triedWallets |-> EmptyObject,
   walletCounter |-> 0]

\* found.json: absent or blank, or a JSON array of found records, or text
\* that is not JSON.
NoFound == [present |-> FALSE, json |-> TRUE, content |-> <<>>]

\* found.json cut short by a write that failed part way.
CutFound == [present |-> TRUE, json |-> FALSE, content |-> <<>>]

\* What fs.writeFileSync(file, data) does: "ok", or it throws
\*   "unopened": the file could not be opened (ENOENT, EACCES): it is as before
\*   "blank":    the file was opened, which truncates it, and nothing was
\*               written (ENOSPC, EFBIG, EIO): a file of 0 bytes
\*   "cut":      the file was opened and a part of the text was written
WriteOutcomes == {"ok", "unopened", "blank", "cut"}

\* The file after fs.writeFileSync(file, data) with the given outcome; "none"
\* and "cut" are the blank file and the file cut short.
writeFileSync(file, data, outcome, none, cut) ==
  CASE outcome = "ok" -> data
    [] outcome = "unopened" -> file
    [] outcome = "blank" -> none
    [] outcome = "cut" -> cut

\* A logs.json prepared by hand before the first start (the dedup fixture of
\* the specification, section 8): one record stored under its phrase.
FixturePhrase == getRandomSeedPhrase(seeds, PhraseLen, RandomStream(0))

FixtureLogs ==
  [present |-> TRUE, json |-> TRUE,
   triedWallets |-> ObjSet(EmptyObject, FixturePhrase,
                           TriedRecord(FixturePhrase, PubkeyOf(FixturePhrase), 0)),
   walletCounter |-> 1]

(* -------------------------------- state -------------------------------- *)

VARIABLES
  variant,        \* which of the five programs runs
  globalSeeds,    \* global.seeds: the lines of seed-key-words.txt
  mainState,      \* "init" | "running" | "exit0" (process.exit(0)) | "exit1"
                  \* | "uncaught" | "killed" | "ended" (nothing left to run)
  attempt,        \* part_002 checkInitialization: let attempt (0 outside the call)
  checkSleep,     \* part_002 checkInitialization: ms of the sleep it is in (0: none)
                  \* (during startup with no sleep, getVersion is called and awaited)
  triedSet,       \* main thread: let triedSet
  triedWallets,   \* main thread: let triedWallets
  walletCounter,  \* main thread: let walletCounter
  logsJson,       \* the file logs.json
  foundJson,      \* the file found.json
  batchData,      \* part_002: let batchData
  dbState,        \* part_002: the main thread's connection
  dbQueue,        \* part_002: queries handed to db.query, not yet run
  dbTables,       \* part_002: tables that exist in the database
  dbTried,        \* part_002: rows of tried_wallets
  dbFound,        \* part_002: rows of found_wallets
  wpc,            \* worker: "none" | "loop" | "generating" | "deriving" | "probing"
                  \*         | "backoff" | "sleep" | "exited" | "terminated"
                  \*         | "crashed" | "dead"
                  \*   ("deriving": inside checkWallet, awaiting mnemonicToSeed;
                  \*    "probing": getBalance called and not yet answered)
  wcand,          \* worker: the seedPhrase inside checkWallet ("" outside)
  wTriedSet,      \* worker: const triedSet = new Set(workerData.triedSet)
  wRpcUrl,        \* worker: workerData.rpcUrl (part_004)
  wConn,          \* worker: the URL of checkWallet's Connection ("" outside)
  wDb,            \* part_002 worker: the connection the module's top level
                  \* opens: "none" | "connecting" | "creating1" | "creating2"
                  \* (awaiting the answer of the 1st, 2nd CREATE TABLE) | "idle"
                  \* (no callback of it is to come)
  inbox,          \* messages posted by each worker, not yet handled
  \* history, read by the properties only
  probes,         \* getBalance calls issued so far
  startedEmpty,   \* the store was empty at the first start
  ledgerLost,     \* a write of logs.json has failed after the file was opened
  arrivals,       \* seedPhrases of the Tried messages saved, in handling order
  arrivalsAtLoad, \* arrivals as it was when this run loaded the ledger
  foundSeen,      \* Found records whose handler has run in this run
  lastDelay,      \* the latest backoff delay since a probe succeeded (0: none;
                  \* below 0: the delays are not recorded)
  versionOk,      \* endpoints whose getVersion has answered in this run's check
  failedChecks,   \* getVersion calls of this run's startup that failed
  lostFound,      \* Found messages posted and not handled when the process ended
  \* a call of getRandomSeedPhrase on its own (GenSpec)
  gen             \* the call: its arguments, the indices drawn, its result

memVars == <<triedSet, triedWallets, walletCounter, batchData>>
diskVars == <<logsJson, foundJson>>
dbVars == <<dbState, dbQueue, dbTables, dbTried, dbFound>>
workerVars == <<wpc, wcand, wTriedSet, wRpcUrl, wConn, wDb, inbox>>
histVars == <<probes, startedEmpty, ledgerLost, arrivals, arrivalsAtLoad, foundSeen,
              lastDelay, versionOk, failedChecks,
              lostFound>>
progVars == <<variant, globalSeeds, mainState, attempt, checkSleep, memVars, diskVars,
              dbVars, workerVars, histVars>>
vars == <<progVars, gen>>

\* The program after the first turn of its main thread: the top level of the
\* module has run and the startup function is awaiting getVersion.
ProgInit ==
  /\ variant \in Variants
  /\ globalSeeds \in Vocabularies
  /\ mainState = "init"
  /\ attempt = 0
  /\ checkSleep = 0
  /\ triedSet = {}
  /\ triedWallets = EmptyObject
  /\ walletCounter = 0
  /\ startedEmpty \in BOOLEAN
  /\ logsJson = IF startedEmpty \/ ~UsesFiles(variant) THEN NoLogs ELSE FixtureLogs
  /\ (~UsesFiles(variant) => startedEmpty)
  /\ ledgerLost = FALSE
  /\ foundJson = NoFound
  /\ batchData = <<>>
  /\ dbState = IF variant = "part_002" THEN "connecting" ELSE "none"
  /\ dbQueue = <<>>
  /\ dbTables = {}
  /\ dbTried = <<>>
  /\ dbFound = <<>>
  /\ wpc = [w \in WorkerIds |-> "none"]
  /\ wcand = [w \in WorkerIds |-> ""]
  /\ wTriedSet = [w \in WorkerIds |-> {}]
  /\ wRpcUrl = [w \in WorkerIds |-> ""]
  /\ wConn = [w \in WorkerIds |-> ""]
  /\ wDb = [w \in WorkerIds |-> "none"]
  /\ inbox = [w \in WorkerIds |-> <<>>]
  /\ probes = 0
  /\ arrivals = <<>>
  /\ arrivalsAtLoad = <<>>
  /\ foundSeen = {}
  /\ versionOk = {}
  /\ failedChecks = 0
  /\ lostFound = {}

\* A word list for getRandomSeedPhrase on its own: words of one and two
\* letters, none with a blank.
GenVocabulary == <<"ab", "c", "de", "f">>

\* The lengths asked for: fewer words than the list has, as many, one more.
GenLengths == 0..(Len(GenVocabulary) + 1)

\* No call of getRandomSeedPhrase is looked at.
NoCall ==
  [vocab |-> <<>>, length |-> 0, drawn |-> <<>>, returned |-> FALSE, phrase |-> ""]

\* getRandomSeedPhrase(vocab, length) has been called:
\*   drawn     the values of Math.floor(Math.random() * seeds.length) so far
\*   returned  the call has returned, and phrase is what it returned
GenCalls ==
  {[vocab |-> GenVocabulary, length |-> n, drawn |-> <<>>, returned |-> FALSE,
    phrase |-> ""] : n \in GenLengths}

\* The backoff delays are recorded in the behaviours of DelaySpec only.
Init == ProgInit /\ gen = NoCall /\ lastDelay = -1

\* The delay d is the latest backoff delay, where the delays are recorded.
Recorded(d) == IF lastDelay < 0 THEN lastDelay ELSE d


(* ------------------------------- startup ------------------------------- *)

\* The endpoints checkInitialization asks for their version: RPC_URLS in
\* part_004 (Promise.all over both), clusterApiUrl('mainnet-beta') otherwise.
Endpoints(v) == IF v = "part_004" THEN 1..Len(RPC_URLS) ELSE {1}

\* loadProgress: triedSet = new Set(Object.keys(triedWallets))
LoadedTriedSet(file) == ObjectKeys(file.triedWallets)

\* Bug variant of LoadedCounter: the counter is not restored.
LoadedCounterReset(file) == 0

\* loadProgress: walletCounter = data.walletCounter || 0
LoadedCounter(file) == file.walletCounter

\* loadProgress: JSON.parse(fs.readFileSync(...)) throws on a file that is
\* not blank and is not JSON; nothing catches it.
LoadThrows(file) == file.present /\ ~file.json

\* loadProgress(): the three variables after a call that returns.  The file
\* is read only if it exists and is not blank.
loadProgress(file) ==
  IF file.present
  THEN [triedWallets |-> file.triedWallets,
        triedSet |-> LoadedTriedSet(file),
        walletCounter |-> LoadedCounter(file)]
  ELSE [triedWallets |-> EmptyObject, triedSet |-> {}, walletCounter |-> 0]

\* The process is gone: its memory, its workers and their undelivered
\* messages with it.  "how" is what becomes of the workers that were alive;
\* of a thread that had ended before, nothing is left ("dead").
ProcessGone(how) ==
  /\ triedSet' = {}
  /\ triedWallets' = EmptyObject
  /\ walletCounter' = 0
  /\ batchData' = <<>>
  /\ attempt' = 0
  /\ checkSleep' = 0
  /\ dbQueue' = <<>>
  /\ dbState' = IF variant = "part_002" THEN "closed" ELSE "none"
  /\ wpc' = [w \in WorkerIds |->
               IF wpc[w] \in {"loop", "generating", "deriving", "probing", "backoff",
                             "sleep"}
               THEN how
               ELSE IF wpc[w] = "none" THEN "none" ELSE "dead"]
  /\ wcand' = [w \in WorkerIds |-> ""]
  /\ wTriedSet' = [w \in WorkerIds |-> {}]
  /\ wRpcUrl' = [w \in WorkerIds |-> ""]
  /\ wConn' = [w \in WorkerIds |-> ""]
  /\ wDb' = [w \in WorkerIds |-> "none"]
  /\ inbox' = [w \in WorkerIds |-> <<>>]

\* The saveFoundWallet messages waiting in the ports, but for the message
\* the handler is working on (the head of worker "handling"'s port, 0: none).
UnhandledFound(handling) ==
  UNION {{FoundRecord(inbox[w][i].pubkey, inbox[w][i].seedPhrase,
                      inbox[w][i].balance) :
            i \in {j \in DOMAIN inbox[w] :
                     /\ inbox[w][j].type = "saveFoundWallet"
                     /\ ~(w = handling /\ j = 1)}} : w \in WorkerIds}

\* The process ends in state "how" while the handler of worker "handling"
\* runs; workers that were alive end as "fate".
DieHandling(how, fate, handling) ==
  /\ mainState' = how
  /\ ProcessGone(fate)
  /\ lastDelay' = Recorded(0)
  /\ lostFound' = IF how = "exit0" THEN UnhandledFound(handling) ELSE {}

\* The process ends in state "how"; workers that were alive end as "fate".
Die(how, fate) == DieHandling(how, fate, 0)

\* Bug variant of MoreAttempts: the number of attempts is not limited.
MoreAttemptsAlways(n) == TRUE

\* part_002 checkInitialization: while (attempt < maxAttempts)
MoreAttempts(n) == n < maxAttempts

\* Bug variant of CheckPassed: the first answer is taken for all of them.
CheckPassedAlways(v, answered) == TRUE

\* await checkInitialization() returns once getVersion has answered for every
\* endpoint asked (part_004: await Promise.all over RPC_URLS).
CheckPassed(v, answered) == answered = Endpoints(v)

\* The getVersion calls awaiting their answer.  The startup function calls
\* getVersion for every endpoint in the first turn of the program (part_004:
\* RPC_URLS.map calls checkInitialization for both); part_002 calls it again
\* when a sleep is over.
Pending ==
  IF mainState = "init" /\ checkSleep = 0
  THEN Endpoints(variant) \ versionOk
  ELSE {}

\* getVersion of endpoint e answers, in a turn of its own.  While another
\* endpoint has not answered (part_004), Promise.all stays pending.  With the
\* last answer await checkInitialization() returns and, in the same turn of
\* the event loop, loadProgress() and the loop that constructs the workers
\* run.  If loadProgress throws, the rejection of the async startup function
\* is not handled: the process ends and no worker is constructed.  In
\* part_002 every worker thread runs the top level of the module, which opens
\* a database connection of its own.
StartupOk(e) ==
  /\ mainState = "init"
  /\ e \in Pending
  /\ versionOk' = versionOk \cup {e}
  /\ IF ~CheckPassed(variant, versionOk \cup {e})
     THEN UNCHANGED <<mainState, attempt, checkSleep, memVars, dbState, dbQueue,
                      workerVars, arrivalsAtLoad, lastDelay, lostFound, failedChecks>>
     ELSE /\ failedChecks' = 0
          /\ IF UsesFiles(variant) /\ LoadThrows(logsJson)
             THEN /\ Die("uncaught", "dead")
                  /\ UNCHANGED arrivalsAtLoad
             ELSE LET loaded == IF UsesFiles(variant) THEN loadProgress(logsJson)
                                ELSE loadProgress(NoLogs) IN
                  /\ triedWallets' = loaded.triedWallets
                  /\ triedSet' = loaded.triedSet
                  /\ walletCounter' = loaded.walletCounter
                  /\ wTriedSet' = [w \in WorkerIds |->
                                     IF w \in Pool(variant) /\ Dedups(variant)
                                     THEN loaded.triedSet ELSE {}]
                  /\ wpc' = [w \in WorkerIds |->
                               IF w \in Pool(variant) THEN "loop" ELSE "none"]
                  /\ wRpcUrl' = [w \in WorkerIds |->
                                   IF w \in Pool(variant) THEN rpcUrl(variant, w - 1)
                                   ELSE ""]
                  /\ wDb' = [w \in WorkerIds |->
                               IF w \in Pool(variant) /\ variant = "part_002"
                               THEN "connecting" ELSE "none"]
                  /\ mainState' = "running"
                  /\ attempt' = 0
                  /\ checkSleep' = 0
                  /\ arrivalsAtLoad' = arrivals
                  /\ UNCHANGED <<batchData, dbState, dbQueue, wcand, wConn, inbox,
                                 lastDelay, lostFound>>
  /\ UNCHANGED <<variant, globalSeeds, gen, diskVars, dbTables, dbTried,
                 dbFound, probes, startedEmpty, ledgerLost, arrivals, foundSeen>>

\* part_002: the timer of the sleep after a failed attempt fires, in a turn
\* of its own; the while condition holds and getVersion is called again.
CheckRetry ==
  /\ variant = "part_002"
  /\ mainState = "init"
  /\ checkSleep > 0
  /\ MoreAttempts(attempt)
  /\ checkSleep' = 0
  /\ UNCHANGED <<variant, globalSeeds, gen, mainState, attempt, memVars, diskVars, dbVars,
                 workerVars, histVars>>

\* part_002: the timer of the sleep after a failed attempt fires and the
\* while condition is false: checkInitialization throws, the rejection of the
\* async startup function is not handled and the process ends.
CheckGivesUp ==
  /\ variant = "part_002"
  /\ mainState = "init"
  /\ checkSleep > 0
  /\ ~MoreAttempts(attempt)
  /\ Die("uncaught", "dead")
  /\ UNCHANGED <<variant, globalSeeds, gen, diskVars, dbTables, dbTried, dbFound,
                 probes, startedEmpty, ledgerLost, arrivals, arrivalsAtLoad, foundSeen,
                 versionOk, failedChecks>>

\* getVersion of endpoint e rejects, in a turn of its own.
\*   index:    catch -> process.exit(1)
\*   part_001, part_003, part_004: the rejection is not handled and the
\*             process ends at once (part_004: Promise.all rejects with the
\*             first rejection, whatever the other endpoint does)
\*   part_002: catch -> attempt++, then the sleep of attempt * 5000 ms
StartupFail(e) ==
  /\ mainState = "init"
  /\ e \in Pending
  /\ IF variant = "part_002"
     THEN /\ attempt' = attempt + 1
          /\ checkSleep' = (attempt + 1) * AttemptSleep
          /\ UNCHANGED <<mainState, memVars, dbState, dbQueue, workerVars,
                         lastDelay, lostFound>>
     ELSE Die(IF variant = "index" THEN "exit1" ELSE "uncaught", "dead")
  /\ failedChecks' = failedChecks + 1
  /\ UNCHANGED <<variant, globalSeeds, gen, diskVars, dbTables, dbTried, dbFound,
                 probes, startedEmpty, ledgerLost, arrivals, arrivalsAtLoad, foundSeen,
                 versionOk>>


(* -------------------------------- worker ------------------------------- *)

\* Bug variant of ShouldProbe: the snapshot is not consulted.
ShouldProbeAlways(v, snapshot, seedPhrase) == TRUE

\* if (!triedSet.has(seedPhrase)) await checkWallet(seedPhrase);
\* part_002 calls checkWallet unconditionally.
ShouldProbe(v, snapshot, seedPhrase) ==
  ~Dedups(v) \/ seedPhrase \notin snapshot

\* What checkWallet posts when getBalance has answered.
\*   index, part_003: Found if balance > 0 (then process.exit(0)), else Tried
\*   part_001, part_004: the same, without the else
\*   part_002: Found if balance > 0, else Tried; no exit
MsgsOnBalance(v, seedPhrase, balance) ==
  IF balance > 0
  THEN <<FoundMsg(seedPhrase, balance)>>
  ELSE <<TriedMsg(seedPhrase, balance)>>

\* Bug variant of MsgsOnError: the failed attempt is reported as tried.
MsgsOnErrorTried(v, seedPhrase) == <<TriedMsg(seedPhrase, 0)>>

\* What checkWallet posts from its catch block: nothing.
MsgsOnError(v, seedPhrase) == <<>>

\* The two CREATE TABLE IF NOT EXISTS queries of ensureTables.
EnsureTablesQueries ==
  <<[op |-> "create", table |-> "tried_wallets", rows |-> <<>>],
    [op |-> "create", table |-> "found_wallets", rows |-> <<>>]>>

\* The statement that follows process.exit(0) in checkWallet,
\*   parentPort.postMessage({ type: 'saveTriedSet', ... }),
\* in index, part_001, part_003 and part_004.  process.exit() in a worker
\* thread asks the thread to stop; whether the thread stops inside the call
\* or runs on to its next stack check depends on the Node.js build, so
\* "runsOn" is an input.  part_002 posts saveTriedSet in the else branch only.
MsgsAfterExit(v, seedPhrase, balance, runsOn) ==
  IF WorkerExitsOnFound(v) /\ balance > 0 /\ runsOn
  THEN <<TriedMsg(seedPhrase, balance)>>
  ELSE <<>>

\* The delay of the catch block for the random number r:
\*   5000 + Math.floor(Math.random() * 5000), in part_002 5000
BackoffDelay(v, r) ==
  IF v = "part_002" THEN BackoffBase
  ELSE BackoffBase + FloorTimes(r, JitterSpan)

\* Bug variant of SnapshotAfterProbe: the worker records what it has probed.
SnapshotAfterProbeAdds(snapshot, seedPhrase) == snapshot \cup {seedPhrase}

\* The worker's triedSet after checkWallet: the worker code only ever calls
\* triedSet.has, so the set is the one built from workerData.
SnapshotAfterProbe(snapshot, seedPhrase) == snapshot

\* Bug variant of AfterBalance: the loop goes on to the next phrase without
\* await delay(2000).
AfterBalanceNoDelay(v, balance) ==
  IF balance > 0 /\ WorkerExitsOnFound(v) THEN "exited" ELSE "loop"

\* Where the worker is once getBalance has answered and checkWallet has
\* posted: the thread has ended in process.exit(0), or checkWallet has
\* returned and the worker's loop awaits delay(2000).
AfterBalance(v, balance) ==
  IF balance > 0 /\ WorkerExitsOnFound(v) THEN "exited" ELSE "sleep"

\* The bound of the model on the work under way: a worker enters checkWallet
\* only while the getBalance calls made, together with the checkWallet calls
\* that are awaiting a derivation or a backoff delay, are fewer than
\* MaxProbes.  A derivation that throws makes no call and uses up nothing.
AttemptsLeft ==
  probes + Cardinality({u \in WorkerIds : wpc[u] \in {"deriving", "backoff"}})
    < MaxProbes

\* One pass through the top of the worker's while(true), entered when the
\* thread starts ("loop") or when await delay(2000) is over ("sleep"): a
\* phrase is generated; if the snapshot has it the worker awaits delay(2000)
\* again, else checkWallet is entered, up to its await of mnemonicToSeed.  With fewer
\* words than PhraseLen the while loop of getRandomSeedPhrase never ends and
\* the thread stays in it ("generating").
WorkerLoop(w, k) ==
  /\ wpc[w] \in {"loop", "sleep"}
  /\ IF ~LoopExits(globalSeeds, PhraseLen)
     THEN /\ wpc' = [wpc EXCEPT ![w] = "generating"]
          /\ UNCHANGED <<wcand, wConn, probes>>
     ELSE LET seedPhrase == GeneratedPhrase[globalSeeds][k] IN
          IF ShouldProbe(variant, wTriedSet[w], seedPhrase)
          THEN /\ AttemptsLeft
               /\ wpc' = [wpc EXCEPT ![w] = "deriving"]
               /\ wcand' = [wcand EXCEPT ![w] = seedPhrase]
               /\ UNCHANGED <<wConn, probes>>
          ELSE /\ wpc' = [wpc EXCEPT ![w] = "sleep"]
               /\ UNCHANGED <<wcand, wConn, probes>>
  /\ UNCHANGED <<variant, globalSeeds, gen, mainState, attempt, checkSleep, memVars, diskVars,
                 dbVars, wTriedSet, wRpcUrl, wDb, inbox,
                 startedEmpty, ledgerLost, arrivals, arrivalsAtLoad, foundSeen,
                 lastDelay, versionOk, failedChecks, lostFound>>

\* The promise of bip39.mnemonicToSeed resolved in worker w: the worker derives
\* the key pair (derivePath, Keypair.fromSeed), constructs the Connection and
\* calls getBalance; nothing throws.  The getBalance calls of the model are
\* capped by MaxProbes.
CallGetBalance(w) ==
  /\ wpc[w] = "deriving"
  /\ probes < MaxProbes
  /\ wpc' = [wpc EXCEPT ![w] = "probing"]
  /\ wConn' = [wConn EXCEPT ![w] = ConnectionUrl(variant, wRpcUrl[w])]
  /\ probes' = probes + 1
  /\ UNCHANGED <<variant, globalSeeds, gen, mainState, attempt, checkSleep, memVars, diskVars,
                 dbVars, wcand, wTriedSet, wRpcUrl, wDb, inbox,
                 startedEmpty, ledgerLost, arrivals, arrivalsAtLoad, foundSeen,
                 lastDelay, versionOk, failedChecks, lostFound>>

\* getBalance resolved with "balance".
ProbeBalance(w, balance, runsOn) ==
  /\ wpc[w] = "probing"
  /\ inbox' = [inbox EXCEPT
                 ![w] = inbox[w] \o MsgsOnBalance(variant, wcand[w], balance)
                                 \o MsgsAfterExit(variant, wcand[w], balance, runsOn)]
  /\ wpc' = [wpc EXCEPT ![w] = AfterBalance(variant, balance)]
  /\ wcand' = [wcand EXCEPT ![w] = ""]
  /\ wConn' = [wConn EXCEPT ![w] = ""]
  /\ wTriedSet' = [wTriedSet EXCEPT
                     ![w] = SnapshotAfterProbe(wTriedSet[w], wcand[w])]
  /\ lastDelay' = Recorded(0)
  /\ UNCHANGED <<variant, globalSeeds, gen, mainState, attempt, checkSleep, memVars, diskVars,
                 dbVars, wRpcUrl, wDb, probes, startedEmpty, ledgerLost,
                 arrivals, arrivalsAtLoad, foundSeen, versionOk, failedChecks, lostFound>>

\* getBalance rejected: the catch block logs and awaits the backoff delay
\* computed from the random number r.  Where the Connection is a const of the
\* try block (index, part_002, part_003) it is out of scope in the catch.
ProbeError(w, r) ==
  /\ wpc[w] = "probing"
  /\ inbox' = [inbox EXCEPT ![w] = inbox[w] \o MsgsOnError(variant, wcand[w])]
  /\ wpc' = [wpc EXCEPT ![w] = "backoff"]
  /\ wConn' = [wConn EXCEPT
                 ![w] = IF DerivationInTry(variant) THEN "" ELSE wConn[w]]
  /\ lastDelay' = Recorded(BackoffDelay(variant, r))
  /\ UNCHANGED <<variant, globalSeeds, gen, mainState, attempt, checkSleep, memVars, diskVars,
                 dbVars, wcand, wTriedSet, wRpcUrl, wDb, probes,
                 startedEmpty, ledgerLost, arrivals, arrivalsAtLoad, foundSeen,
                 versionOk, failedChecks, lostFound>>

\* The backoff delay is over: the while(true) of checkWallet starts over for
\* the same phrase and awaits bip39.mnemonicToSeed again (index, part_002,
\* part_003), or checkWallet returns and the worker awaits delay(2000)
\* (part_001, part_004).
BackoffDone(w) ==
  /\ wpc[w] = "backoff"
  /\ IF RetriesSamePhrase(variant)
     THEN /\ probes < MaxProbes
          /\ wpc' = [wpc EXCEPT ![w] = "deriving"]
          /\ wConn' = [wConn EXCEPT ![w] = ""]
          /\ UNCHANGED <<wcand, probes>>
     ELSE /\ wpc' = [wpc EXCEPT ![w] = "sleep"]
          /\ wcand' = [wcand EXCEPT ![w] = ""]
          /\ wConn' = [wConn EXCEPT ![w] = ""]
          /\ UNCHANGED probes
  /\ UNCHANGED <<variant, globalSeeds, gen, mainState, attempt, checkSleep, memVars, diskVars,
                 dbVars, wTriedSet, wRpcUrl, wDb, inbox,
                 startedEmpty, ledgerLost, arrivals, arrivalsAtLoad, foundSeen,
                 lastDelay, versionOk, failedChecks, lostFound>>

\* The worker thread as it is after an uncaught exception.
Crashed(w) ==
  /\ wpc' = [wpc EXCEPT ![w] = "crashed"]
  /\ wcand' = [wcand EXCEPT ![w] = ""]
  /\ wConn' = [wConn EXCEPT ![w] = ""]
  /\ wDb' = [wDb EXCEPT ![w] = "none"]

\* The derivation (mnemonicToSeed, derivePath, Keypair.fromSeed) throws in
\* worker w, which is inside checkWallet and has neither constructed the
\* Connection nor called getBalance for this attempt.
\*   index, part_002, part_003: the derivation is inside the try: the catch
\*     block runs as it does for a failed getBalance
\*   part_001, part_004: the derivation is before the try: checkWallet
\*     rejects, nothing handles the rejection and the worker thread dies.
\* The Supervisor's worker.on('error') and worker.on('exit') handlers log a
\* line and do nothing else; messages the worker had posted are delivered.
WorkerCrash(w, r) ==
  /\ wpc[w] = "deriving"
  /\ IF DerivationInTry(variant)
     THEN /\ wpc' = [wpc EXCEPT ![w] = "backoff"]
          /\ lastDelay' = Recorded(BackoffDelay(variant, r))
          /\ UNCHANGED <<wcand, wConn, wDb>>
     ELSE /\ Crashed(w)
          /\ UNCHANGED lastDelay
  /\ UNCHANGED <<variant, globalSeeds, gen, mainState, attempt, checkSleep, memVars, diskVars,
                 dbVars, wTriedSet, wRpcUrl, inbox, probes, startedEmpty, ledgerLost,
                 arrivals, arrivalsAtLoad, foundSeen, versionOk, failedChecks, lostFound>>

\* A callback of worker w's database connection can run only in a turn of the
\* worker's event loop: the thread is at an await of its loop, not in the
\* turn it started with and not spinning in getRandomSeedPhrase.
WorkerTurns(w) == wpc[w] \in {"deriving", "probing", "backoff", "sleep"}

\* part_002, worker thread: the top level of the module runs in every thread,
\* so the worker opens a connection of its own.  The callback of db.connect:
\*   if (err) { console.error(...); return; }  ensureTables();
\* ensureTables hands the two CREATE TABLE queries to the connection, which
\* answers them one after the other.
WorkerDbConnect(w, ok) ==
  /\ wDb[w] = "connecting"
  /\ WorkerTurns(w)
  /\ wDb' = [wDb EXCEPT ![w] = IF ok THEN "creating1" ELSE "idle"]
  /\ UNCHANGED <<variant, globalSeeds, gen, mainState, attempt, checkSleep, memVars, diskVars,
                 dbVars, wpc, wcand, wConn, wTriedSet, wRpcUrl, inbox,
                 histVars>>

\* part_002, worker thread: the next CREATE TABLE query of ensureTables is
\* answered and its callback runs:
\*   if (err) throw err      (an uncaught exception in the worker)
WorkerDbAnswer(w, ok) ==
  /\ wDb[w] \in {"creating1", "creating2"}
  /\ WorkerTurns(w)
  /\ LET q == EnsureTablesQueries[IF wDb[w] = "creating1" THEN 1 ELSE 2] IN
     IF ok
     THEN /\ dbTables' = dbTables \cup {q.table}
          /\ wDb' = [wDb EXCEPT
                       ![w] = IF wDb[w] = "creating1" THEN "creating2" ELSE "idle"]
          /\ UNCHANGED <<wpc, wcand, wConn>>
     ELSE /\ Crashed(w)
          /\ UNCHANGED dbTables
  /\ UNCHANGED <<variant, globalSeeds, gen, mainState, attempt, checkSleep, memVars, diskVars,
                 dbState, dbQueue, dbTried, dbFound, wTriedSet, wRpcUrl, inbox,
                 histVars>>

(* ------------------------------ supervisor ----------------------------- *)

\* An outcome as the properties speak of it: kind is "tried" or "found".
Outcome(kind, m) ==
  [kind |-> kind, seedPhrase |-> m.seedPhrase, pubkey |-> m.pubkey,
   balance |-> m.balance]

\* Bug variant of NextCounter: the increment is missing.
NextCounterSame(c) == c

\* saveTriedSet: walletCounter++
NextCounter(c) == c + 1

\* saveTriedSet: triedWallets[walletCounter] = { seedPhrase, pubkey, balance }
\* with the counter already incremented.
StoreTried(wallets, counter, m) ==
  ObjSet(wallets, KeyOf(counter), TriedRecord(m.seedPhrase, m.pubkey, m.balance))

\* saveFoundWallet: the array written to found.json, the parsed content of
\* the file (or, without a file, the empty array) with foundData pushed.
PushFound(file, m) ==
  Append(IF file.present THEN file.content ELSE <<>>,
         FoundRecord(m.pubkey, m.seedPhrase, m.balance))

\* Bug variant of TerminateReached: the workers are terminated before
\* saveFoundWallet is called.
TerminateFirst(v, saved) == HaltsOnFound(v)

\* part_001, part_004 handler of saveFoundWallet:
\*   saveFoundWallet(...); workers.forEach(w => w.terminate()); process.exit(0);
\* the terminate calls are reached only if saveFoundWallet did not throw.
TerminateReached(v, saved) == HaltsOnFound(v) /\ saved

\* part_002 flushBatch: the query queue after the call.
FlushQueue(queue, batch) ==
  IF Len(batch) = 0 THEN queue
  ELSE Append(queue, [op |-> "insertTried", table |-> "tried_wallets",
                      rows |-> batch])

\* worker.on('message') for a saveTriedSet message of worker w.  "outcome" is
\* what fs.writeFileSync does; a throw is an uncaught exception, and it leaves
\* logs.json as the failed write left it.
HandleTried(w, outcome) ==
  /\ mainState = "running"
  /\ inbox[w] # <<>>
  /\ Head(inbox[w]).type = "saveTriedSet"
  /\ LET m == Head(inbox[w])
         counter == NextCounter(walletCounter)
         wallets == StoreTried(triedWallets, counter, m)
         batch == Append(batchData, TriedRecord(m.seedPhrase, m.pubkey, m.balance))
         dataToSave == [present |-> TRUE, json |-> TRUE,
                        triedWallets |-> wallets, walletCounter |-> counter]
     IN
     IF UsesFiles(variant)
     THEN /\ logsJson' = writeFileSync(logsJson, dataToSave, outcome,
                                       NoLogs, CutLogs)
          /\ IF outcome = "ok"
             THEN /\ walletCounter' = counter
                  /\ triedWallets' = wallets
                  /\ inbox' = [inbox EXCEPT ![w] = Tail(inbox[w])]
                  /\ arrivals' = Append(arrivals, m.seedPhrase)
                  /\ UNCHANGED <<mainState, attempt, checkSleep, triedSet, batchData, dbState,
                                 dbQueue, wpc, wcand, wConn, wTriedSet, wRpcUrl, wDb, lastDelay,
                                 lostFound, ledgerLost>>
             ELSE /\ Die("uncaught", "dead")
                  /\ ledgerLost' = (ledgerLost \/ outcome # "unopened")
                  /\ UNCHANGED arrivals
     ELSE /\ outcome = "ok"
          /\ IF Len(batch) >= batchSize
             THEN /\ dbQueue' = FlushQueue(dbQueue, batch)
                  /\ batchData' = <<>>
             ELSE /\ batchData' = batch
                  /\ UNCHANGED dbQueue
          /\ inbox' = [inbox EXCEPT ![w] = Tail(inbox[w])]
          /\ UNCHANGED <<mainState, attempt, checkSleep, triedSet, triedWallets,
                         walletCounter, logsJson, dbState, wpc, wcand, wConn,
                         wTriedSet, wRpcUrl, wDb, arrivals, ledgerLost,
                         lastDelay, lostFound>>
  /\ UNCHANGED <<variant, globalSeeds, gen, foundJson, dbTables, dbTried, dbFound,
                 probes, startedEmpty, arrivalsAtLoad, foundSeen,
                 versionOk, failedChecks>>

\* saveFoundWallet: JSON.parse(fs.readFileSync(...)) throws on a found.json
\* that is not blank and is not JSON, before anything is written.
ParseThrows(file) == file.present /\ ~file.json

\* worker.on('message') for a saveFoundWallet message of worker w.  "outcome"
\* is what fs.writeFileSync does, if it is reached.
\*   index: saveFoundWallet catches the error of the parse or of the write,
\*          logs it and returns
\*   part_001, part_004: save, then terminate every worker and process.exit(0)
\*   part_003: save
\*   part_002: db.query(INSERT INTO found_wallets ...), answered later
HandleFound(w, outcome) ==
  /\ mainState = "running"
  /\ inbox[w] # <<>>
  /\ Head(inbox[w]).type = "saveFoundWallet"
  /\ LET m == Head(inbox[w])
         saved == ~ParseThrows(foundJson) /\ outcome = "ok"
         foundWallets == [present |-> TRUE, json |-> TRUE,
                          content |-> PushFound(foundJson, m)]
     IN
     /\ foundSeen' = foundSeen \cup {FoundRecord(m.pubkey, m.seedPhrase, m.balance)}
     /\ IF UsesFiles(variant)
        THEN /\ foundJson' = IF ParseThrows(foundJson) THEN foundJson
                             ELSE writeFileSync(foundJson, foundWallets, outcome,
                                                NoFound, CutFound)
             /\ IF TerminateReached(variant, saved)
                THEN DieHandling(IF saved THEN "exit0" ELSE "uncaught",
                                 "terminated", w)
                ELSE IF saved \/ SwallowsFoundWriteError(variant)
                THEN /\ inbox' = [inbox EXCEPT ![w] = Tail(inbox[w])]
                     /\ UNCHANGED <<mainState, attempt, checkSleep, memVars, dbState, dbQueue,
                                    wpc, wcand, wConn, wTriedSet, wRpcUrl, wDb, lastDelay, lostFound>>
                ELSE DieHandling("uncaught", "dead", w)
        ELSE /\ outcome = "ok"
             /\ dbQueue' = Append(dbQueue,
                                  [op |-> "insertFound", table |-> "found_wallets",
                                   rows |-> <<FoundRecord(m.pubkey, m.seedPhrase,
                                                          m.balance)>>])
             /\ inbox' = [inbox EXCEPT ![w] = Tail(inbox[w])]
             /\ UNCHANGED <<mainState, attempt, checkSleep, memVars, foundJson, dbState,
                            wpc, wcand, wConn, wTriedSet, wRpcUrl, wDb,
                            lastDelay, lostFound>>
  /\ UNCHANGED <<variant, globalSeeds, gen, logsJson, dbTables, dbTried, dbFound,
                 probes, startedEmpty, ledgerLost, arrivals, arrivalsAtLoad, versionOk, failedChecks>>


(* ------------------------------- part_002 ------------------------------ *)

\* Rows as the table stores them: id INT AUTO_INCREMENT PRIMARY KEY.
WithIds(table, rows) ==
  table \o [i \in 1..Len(rows) |-> [id |-> Len(table) + i, row |-> rows[i]]]

\* db.connect's callback: on error it logs and returns, else ensureTables().
DbConnect(ok) ==
  /\ dbState = "connecting"
  /\ mainState \in {"init", "running"}
  /\ dbState' = IF ok THEN "up" ELSE "failed"
  /\ dbQueue' = IF ok THEN dbQueue \o EnsureTablesQueries ELSE dbQueue
  /\ UNCHANGED <<variant, globalSeeds, gen, mainState, attempt, checkSleep, memVars, diskVars,
                 dbTables, dbTried, dbFound, workerVars, histVars>>

\* The oldest query is answered and its callback runs.  A query on a
\* connection that failed, or an INSERT into a table that does not exist,
\* is answered with an error.
\*   create:      if (err) throw err      (an uncaught exception)
\*   insertTried: if (err) console.error  (the batch is gone)
\*   insertFound: if (err) console.error
DbAnswer(ok) ==
  /\ dbState \in {"up", "failed"}
  /\ mainState \in {"init", "running"}
  /\ dbQueue # <<>>
  /\ LET q == Head(dbQueue)
         done == /\ ok
                 /\ dbState = "up"
                 /\ (q.op = "create" \/ q.table \in dbTables)
     IN
     /\ dbTables' = IF done /\ q.op = "create"
                    THEN dbTables \cup {q.table} ELSE dbTables
     /\ dbTried' = IF done /\ q.op = "insertTried"
                   THEN WithIds(dbTried, q.rows) ELSE dbTried
     /\ dbFound' = IF done /\ q.op = "insertFound"
                   THEN WithIds(dbFound, q.rows) ELSE dbFound
     /\ IF ~done /\ q.op = "create"
        THEN Die("uncaught", "dead")
        ELSE /\ dbQueue' = Tail(dbQueue)
             /\ UNCHANGED <<mainState, attempt, checkSleep, memVars, dbState, workerVars,
                            lastDelay, lostFound>>
  /\ UNCHANGED <<variant, globalSeeds, gen, diskVars, probes, startedEmpty, ledgerLost,
                 arrivals, arrivalsAtLoad, foundSeen, versionOk, failedChecks>>

\* setInterval(flushBatch, flushInterval) fires with a batch to flush.
FlushTimer ==
  /\ variant = "part_002"
  /\ mainState \in {"init", "running"}
  /\ batchData # <<>>
  /\ dbQueue' = FlushQueue(dbQueue, batchData)
  /\ batchData' = <<>>
  /\ UNCHANGED <<variant, globalSeeds, gen, mainState, attempt, checkSleep, triedSet,
                 triedWallets, walletCounter, diskVars, dbState, dbTables,
                 dbTried, dbFound, workerVars, histVars>>

(* ------------------------ the end of the program ---------------------- *)

\* The main thread has nothing left to wait for: every worker thread has
\* ended (the 'exit' handlers have logged their line), every message posted
\* has been handled, and the main thread of index, part_001, part_003 and
\* part_004 holds no timer and no connection, so Node.js ends the process
\* with exit code 0.  part_002 holds its setInterval and its database
\* connection and does not end by itself.
MainEnds ==
  /\ UsesFiles(variant)
  /\ mainState = "running"
  /\ \A w \in Pool(variant) : wpc[w] \in {"exited", "crashed"}
  /\ \A w \in WorkerIds : inbox[w] = <<>>
  /\ Die("ended", "dead")
  /\ UNCHANGED <<variant, globalSeeds, gen, diskVars, dbTables, dbTried, dbFound,
                 probes, startedEmpty, ledgerLost, arrivals, arrivalsAtLoad, foundSeen,
                 versionOk, failedChecks>>

(* --------------------------- the environment --------------------------- *)

\* The process is stopped from outside (a signal, the container, the power).
Kill ==
  /\ mainState \in {"init", "running"}
  /\ Die("killed", "dead")
  /\ UNCHANGED <<variant, globalSeeds, gen, diskVars, dbTables, dbTried, dbFound,
                 probes, startedEmpty, ledgerLost, arrivals, arrivalsAtLoad, foundSeen,
                 versionOk, failedChecks>>

\* node index.js again: a fresh process over the store the last one left.
Restart ==
  /\ mainState \in {"exit0", "exit1", "uncaught", "killed", "ended"}
  /\ mainState' = "init"
  /\ dbState' = IF variant = "part_002" THEN "connecting" ELSE "none"
  /\ wpc' = [w \in WorkerIds |-> "none"]
  /\ wTriedSet' = [w \in WorkerIds |-> {}]
  /\ wRpcUrl' = [w \in WorkerIds |-> ""]
  /\ foundSeen' = {}
  /\ arrivalsAtLoad' = <<>>
  /\ versionOk' = {}
  /\ failedChecks' = 0
  /\ lostFound' = {}
  /\ UNCHANGED <<variant, globalSeeds, gen, attempt, checkSleep, memVars, diskVars, dbQueue,
                 dbTables, dbTried, dbFound, wcand, wConn, wDb, inbox,
                 probes, startedEmpty, ledgerLost, arrivals, lastDelay>>

Next ==
  \/ \E e \in Endpoints(variant) : StartupOk(e)
  \/ \E e \in Endpoints(variant) : StartupFail(e)
  \/ CheckRetry
  \/ CheckGivesUp
  \/ \E w \in WorkerIds, k \in 0..(NumStreams - 1) : WorkerLoop(w, k)
  \/ \E w \in WorkerIds : CallGetBalance(w)
  \/ \E w \in WorkerIds, balance \in Balances, runsOn \in BOOLEAN :
        ProbeBalance(w, balance, runsOn)
  \/ \E w \in WorkerIds, r \in Randoms : ProbeError(w, r)
  \/ \E w \in WorkerIds : BackoffDone(w)
  \/ \E w \in WorkerIds, r \in Randoms : WorkerCrash(w, r)
  \/ \E w \in WorkerIds, ok \in BOOLEAN : WorkerDbConnect(w, ok)
  \/ \E w \in WorkerIds, ok \in BOOLEAN : WorkerDbAnswer(w, ok)
  \/ \E w \in WorkerIds, outcome \in WriteOutcomes : HandleTried(w, outcome)
  \/ \E w \in WorkerIds, outcome \in WriteOutcomes : HandleFound(w, outcome)
  \/ \E ok \in BOOLEAN : DbConnect(ok)
  \/ \E ok \in BOOLEAN : DbAnswer(ok)
  \/ FlushTimer
  \/ MainEnds
  \/ Kill
  \/ Restart

Spec == Init /\ [][Next]_vars

(* ----------------------- getRandomSeedPhrase alone --------------------- *)

\* One call of getRandomSeedPhrase, the program not started.
GenInit ==
  /\ ProgInit
  /\ variant = "index"
  /\ globalSeeds = seeds
  /\ startedEmpty
  /\ gen \in GenCalls
  /\ lastDelay = -1

\* One pass of while (selectedIndices.size < length): Math.random() gives
\* randomIndex, which is added to the Set.
GenDraw(randomIndex) ==
  /\ gen.vocab # <<>>
  /\ ~gen.returned
  /\ Cardinality(Range(gen.drawn)) < gen.length
  /\ Len(gen.drawn) < MaxDraws
  /\ gen' = [gen EXCEPT !.drawn = Append(@, randomIndex)]
  /\ UNCHANGED progVars

\* The while condition is false: the call returns the joined words.
GenReturn ==
  /\ gen.vocab # <<>>
  /\ ~gen.returned
  /\ ~(Cardinality(Range(gen.drawn)) < gen.length)
  /\ gen' = [gen EXCEPT
               !.returned = TRUE,
               !.phrase = getRandomSeedPhrase(gen.vocab, gen.length, gen.drawn)]
  /\ UNCHANGED progVars

GenNext ==
  \/ \E randomIndex \in 0..(Len(gen.vocab) - 1) : GenDraw(randomIndex)
  \/ GenReturn

GenSpec == GenInit /\ [][GenNext]_vars

\* The steps the program takes by itself: every step but those of the
\* environment (Kill, Restart).
ProgramNext ==
  \/ \E e \in Endpoints(variant) : StartupOk(e)
  \/ \E e \in Endpoints(variant) : StartupFail(e)
  \/ CheckRetry
  \/ CheckGivesUp
  \/ \E w \in WorkerIds, k \in 0..(NumStreams - 1) : WorkerLoop(w, k)
  \/ \E w \in WorkerIds : CallGetBalance(w)
  \/ \E w \in WorkerIds, balance \in Balances, runsOn \in BOOLEAN :
        ProbeBalance(w, balance, runsOn)
  \/ \E w \in WorkerIds, r \in Randoms : ProbeError(w, r)
  \/ \E w \in WorkerIds : BackoffDone(w)
  \/ \E w \in WorkerIds, r \in Randoms : WorkerCrash(w, r)
  \/ \E w \in WorkerIds, ok \in BOOLEAN : WorkerDbConnect(w, ok)
  \/ \E w \in WorkerIds, ok \in BOOLEAN : WorkerDbAnswer(w, ok)
  \/ \E w \in WorkerIds, outcome \in WriteOutcomes : HandleTried(w, outcome)
  \/ \E w \in WorkerIds, outcome \in WriteOutcomes : HandleFound(w, outcome)
  \/ \E ok \in BOOLEAN : DbConnect(ok)
  \/ \E ok \in BOOLEAN : DbAnswer(ok)
  \/ FlushTimer
  \/ MainEnds

\* The event loops of Node.js run every callback that is ready: a program
\* step that stays enabled is taken.  Nothing is assumed of the environment.
FairSpec == Spec /\ WF_vars(ProgramNext)

\* The program with its backoff delays recorded.
DelayInit == ProgInit /\ gen = NoCall /\ lastDelay = 0

DelaySpec == DelayInit /\ [][Next]_vars


(* ------------------------------ properties ----------------------------- *)

\* Outcomes in durable storage: logs.json, found.json and the two tables.
Durable ==
  {[kind |-> "tried", seedPhrase |-> logsJson.triedWallets[k].seedPhrase,
    pubkey |-> logsJson.triedWallets[k].pubkey,
    balance |-> logsJson.triedWallets[k].balance] :
      k \in DOMAIN logsJson.triedWallets}
  \cup
  {[kind |-> "found", seedPhrase |-> foundJson.content[i].seed,
    pubkey |-> foundJson.content[i].pubkey,
    balance |-> foundJson.content[i].balance] : i \in DOMAIN foundJson.content}
  \cup
  {[kind |-> "tried", seedPhrase |-> dbTried[i].row.seedPhrase,
    pubkey |-> dbTried[i].row.pubkey,
    balance |-> dbTried[i].row.balance] : i \in DOMAIN dbTried}
  \cup
  {[kind |-> "found", seedPhrase |-> dbFound[i].row.seed,
    pubkey |-> dbFound[i].row.pubkey,
    balance |-> dbFound[i].row.balance] : i \in DOMAIN dbFound}

\* Outcomes the Supervisor has taken from a worker and holds in memory only:
\* the batch, and the rows of INSERT queries not yet answered.
Held ==
  {[kind |-> "tried", seedPhrase |-> batchData[i].seedPhrase,
    pubkey |-> batchData[i].pubkey,
    balance |-> batchData[i].balance] : i \in DOMAIN batchData}
  \cup
  UNION {{[kind |-> IF dbQueue[j].op = "insertTried" THEN "tried" ELSE "found",
           seedPhrase |-> IF dbQueue[j].op = "insertTried"
                          THEN dbQueue[j].rows[i].seedPhrase
                          ELSE dbQueue[j].rows[i].seed,
           pubkey |-> dbQueue[j].rows[i].pubkey,
           balance |-> dbQueue[j].rows[i].balance] :
             i \in DOMAIN dbQueue[j].rows} : j \in DOMAIN dbQueue}

\* A Found message has been handled in this run.
FoundHandled == foundSeen # {}

\* C1: in the programs that halt the pool on Found (part_001, part_004),
\* whenever a terminate signal has been issued to a worker or the process has
\* exited with code 0, every Found message handled in this run has its record
\* in found.json: the record is written before the halt.
C1_FoundSavedBeforeHalt ==
  (/\ HaltsOnFound(variant)
   /\ \/ \E w \in WorkerIds : wpc[w] = "terminated"
      \/ mainState = "exit0")
  => /\ FoundHandled
     /\ foundSeen \subseteq Range(foundJson.content)

\* C1 witness: part_001 / part_004 has handled a Found message, terminated a
\* running worker and exited.
C1_Witness ==
  /\ HaltsOnFound(variant)
  /\ mainState = "exit0"
  /\ FoundHandled
  /\ \E w \in WorkerIds : wpc[w] = "terminated"

\* C2, as claimed: once the Supervisor has handled a Found message, no worker
\* starts a new probe (no getBalance call is issued by any worker).
C2_NoProbeAfterFound ==
  [][FoundHandled =>
       \A w \in WorkerIds : wpc'[w] = "probing" => wpc[w] = "probing"]_vars

\* C3, as claimed: once the Supervisor has handled a Found message, no further
\* record is appended to the tried ledger (logs.json, the batch, tried_wallets).
C3_NoTriedAfterFound ==
  [][FoundHandled =>
       /\ logsJson' = logsJson
       /\ dbTried' = dbTried
       /\ Len(batchData') <= Len(batchData)]_vars

\* C4: a failed probe (getBalance rejects: the worker goes from probing to its
\* backoff delay) posts no message and leaves the tried ledger, the batch, the
\* query queue and the sequence counter as they were, in every program.
C4_FailedProbeLeavesNoTrace ==
  [][(\E w \in WorkerIds : wpc[w] = "probing" /\ wpc'[w] = "backoff") =>
       /\ inbox' = inbox
       /\ logsJson' = logsJson
       /\ triedWallets' = triedWallets
       /\ walletCounter' = walletCounter
       /\ batchData' = batchData
       /\ dbQueue' = dbQueue
       /\ dbTried' = dbTried]_vars

\* C4 witness: a probe has failed and its worker is in the backoff delay,
\* with its phrase in no message and no record.
C4_Witness ==
  /\ ~DerivationInTry(variant)
  /\ probes = 1
  /\ \E w \in WorkerIds :
       /\ wpc[w] = "backoff"
       /\ wcand[w] # ""
       /\ wConn[w] # ""
  /\ \A w \in WorkerIds : inbox[w] = <<>>
  /\ arrivals = <<>> /\ foundSeen = {}


\* C5, as claimed: in a run over a store that only earlier runs of the program
\* have written, the tried-set loaded at startup and every worker's snapshot
\* are exactly the set of seed phrases of the records persisted before.
C5_TriedSetIsPersistedPhrases ==
  (startedEmpty /\ UsesFiles(variant) /\ mainState = "running") =>
    /\ triedSet = Range(arrivalsAtLoad)
    /\ \A w \in Pool(variant) : wTriedSet[w] = Range(arrivalsAtLoad)

\* C6: a worker that is inside checkWallet (deriving the key, getBalance in
\* flight, or in the backoff delay before the retry) holds a phrase that is
\* not a member of its tried-set snapshot.
C6_NoProbeOfSnapshotMember ==
  \A w \in WorkerIds :
    wpc[w] \in {"deriving", "probing", "backoff"} =>
      wcand[w] \notin wTriedSet[w]

\* C6 witness: in index, over a ledger that held a record before the program
\* had saved any (arrivals is empty), the
\* one getBalance call made so far is worker 2's, for a phrase that is not
\* in its snapshot, and worker 1 is in the 2000 ms delay, which it can only
\* have reached without a call by generating a member of its snapshot.
C6_Witness ==
  /\ variant = "index"
  /\ arrivals = <<>>
  /\ probes = 1
  /\ wpc[1] = "sleep"
  /\ wpc[2] = "probing"
  /\ wTriedSet[2] # {}
  /\ wcand[2] \notin wTriedSet[2]

\* C7: over a store that was empty at the first start and that holds the
\* records appended to it (no write of logs.json has failed after the file
\* was opened), with n the number of TriedRecords appended before this run
\* loaded the ledger, loadProgress has produced a tried-set of exactly n
\* entries, and the counter always equals the number of records appended so
\* far, so that the keys of the ledger are 1..m after m appends: the record
\* appended after a restart over n records is stored as number n+1.
C7_RestartReproducesLedger ==
  (startedEmpty /\ ~ledgerLost /\ UsesFiles(variant) /\ mainState = "running") =>
    /\ Cardinality(triedSet) = Len(arrivalsAtLoad)
    /\ walletCounter = Len(arrivals)
    /\ ObjectKeys(logsJson.triedWallets) = {KeyOf(i) : i \in 1..Len(arrivals)}

\* C7 witness: a restarted run that loaded a ledger of n >= 1 records has
\* appended record n+1.
C7_Witness ==
  /\ startedEmpty
  /\ ~ledgerLost
  /\ UsesFiles(variant)
  /\ mainState = "running"
  /\ Len(arrivalsAtLoad) >= 1
  /\ Len(arrivals) = Len(arrivalsAtLoad) + 1
  /\ KeyOf(Len(arrivals)) \in ObjectKeys(logsJson.triedWallets)

\* The counter of the logs.json the first run started over.
BaseCounter == IF startedEmpty THEN 0 ELSE FixtureLogs.walletCounter

\* C8: over the runs that load the counter the run before persisted (no
\* write of logs.json has failed after the file was opened), the i-th Tried
\* message the Supervisor has saved is stored under sequence number base + i,
\* and is still there: the numbers rise by arrival order, none is given
\* twice and no record is overwritten.
C8_SequenceNumbersByArrival ==
  (UsesFiles(variant) /\ ~ledgerLost) =>
    /\ \A i \in 1..Len(arrivals) :
         /\ KeyOf(BaseCounter + i) \in ObjectKeys(logsJson.triedWallets)
         /\ logsJson.triedWallets[KeyOf(BaseCounter + i)].seedPhrase = arrivals[i]
    /\ Cardinality(ObjectKeys(logsJson.triedWallets)) =
         Len(arrivals) + Cardinality(ObjectKeys(
                           IF startedEmpty THEN EmptyObject
                           ELSE FixtureLogs.triedWallets))

\* C8 witness: two Tried messages with different phrases have been saved, the
\* second one in a run after a restart.
C8_Witness ==
  /\ UsesFiles(variant)
  /\ ~ledgerLost
  /\ Len(arrivals) = 2
  /\ Len(arrivalsAtLoad) = 1
  /\ arrivals[1] # arrivals[2]

\* C9, as claimed: in every state between two handler calls, every outcome the
\* Supervisor has taken from a worker is in durable storage: nothing is held
\* in a memory buffer only.
C9_AcceptedIsDurable ==
  mainState = "running" => Held \subseteq Durable

\* The outcomes in the rows of an INSERT query.
RowsOf(q) ==
  {[kind |-> IF q.op = "insertTried" THEN "tried" ELSE "found",
    seedPhrase |-> IF q.op = "insertTried" THEN q.rows[i].seedPhrase
                   ELSE q.rows[i].seed,
    pubkey |-> q.rows[i].pubkey,
    balance |-> q.rows[i].balance] : i \in DOMAIN q.rows}

\* C10, as claimed: the Supervisor does not go on processing messages with a
\* record dropped: when the handler of a saveFoundWallet message has
\* returned, or the callback of an INSERT query has run, and the process is
\* still running, the record is in the store.
C10_NoSilentDrop ==
  [][mainState' = "running" =>
       /\ \A w \in WorkerIds :
            (/\ UsesFiles(variant)
             /\ inbox[w] # <<>>
             /\ inbox'[w] = Tail(inbox[w])
             /\ Head(inbox[w]).type = "saveFoundWallet") =>
              Outcome("found", Head(inbox[w])) \in Durable'
       /\ (dbQueue # <<>> /\ dbQueue' = Tail(dbQueue)) =>
            RowsOf(Head(dbQueue)) \subseteq Durable']_vars


\* C11, as claimed: the backoff delays applied after consecutive probe
\* failures never go down and stay below the fixed maximum
\* BackoffBase + JitterSpan: a failure that follows a failure (lastDelay > 0)
\* is given a delay that is not smaller than the one before.
C11_BackoffNonDecreasingBounded ==
  [][lastDelay' # 0 =>
       /\ lastDelay <= lastDelay'
       /\ lastDelay' < BackoffBase + JitterSpan]_vars

\* C12, as claimed: the backoff delay of one worker's failed probe postpones
\* the next probe of every worker: while a worker sits in its backoff delay,
\* no other worker starts a probe.
C12_BackoffPostponesEveryWorker ==
  [][\A w, u \in WorkerIds :
       (w # u /\ wpc[w] = "backoff" /\ wpc'[w] = "backoff") =>
         (wpc'[u] = "probing" => wpc[u] = "probing")]_vars

\* C13, as claimed: with fewer words in the vocabulary than a phrase has
\* (PhraseLen > N) the program fails at startup: it never runs, no worker is
\* spawned, and no worker is caught in the loop of getRandomSeedPhrase.
C13_ShortVocabularyFailsFast ==
  PhraseLen > Len(globalSeeds) =>
    /\ mainState # "running"
    /\ \A w \in WorkerIds : wpc[w] = "none"

\* The worker threads that are running.
LiveWorkers ==
  {w \in WorkerIds : wpc[w] \in {"loop", "generating", "deriving", "probing", "backoff",
                             "sleep"}}

\* C14, as claimed: when a worker has died of an uncaught fault, then, unless
\* the Supervisor process ends, the number of running workers eventually is
\* the pool size again.  (A behaviour in which the workers left are held up
\* by the bound MaxProbes only is not counted against the claim.)
C14_CrashedWorkerIsReplaced ==
  (\E w \in WorkerIds : wpc[w] = "crashed")
    ~> \/ mainState # "running"
       \/ Cardinality(LiveWorkers) = PoolSize(variant)
       \/ ~AttemptsLeft

\* C15, as claimed: no worker thread operates on the store: no worker thread
\* has a database connection (no worker code touches logs.json or found.json
\* in any program, so the files need no conjunct).
C15_OnlySupervisorTouchesStore ==
  \A w \in WorkerIds : wDb[w] = "none"

\* C16, as claimed: (a) a probe that returns a balance, zero or positive,
\* makes its worker post a Tried message for its phrase, and (b) the phrase of
\* a record appended to the tried ledger has no earlier record of this run.
C16_OneTriedRecordPerDefinitiveProbe ==
  [][/\ \A w \in WorkerIds :
          (wpc[w] = "probing" /\ wpc'[w] \in {"sleep", "exited"}) =>
            \E i \in DOMAIN inbox'[w] :
              /\ i > Len(inbox[w])
              /\ inbox'[w][i].type = "saveTriedSet"
              /\ inbox'[w][i].seedPhrase = wcand[w]
     /\ Len(arrivals') > Len(arrivals) =>
          arrivals'[Len(arrivals')] \notin
            {arrivals[i] : i \in (Len(arrivalsAtLoad) + 1)..Len(arrivals)}]_vars

\* C17: unless getVersion has answered for every configured endpoint, no
\* worker exists and the checkpoint is not loaded; and a program one of whose
\* getVersion calls has failed is not waiting in startup (part_002, which
\* tries again, is) but has aborted.
C17_NoSpawnWithoutConnectivity ==
  /\ versionOk # Endpoints(variant) =>
       /\ \A w \in WorkerIds : wpc[w] = "none"
       /\ triedSet = {} /\ triedWallets = EmptyObject /\ walletCounter = 0
       /\ mainState \in {"init", "exit1", "uncaught", "killed"}
  /\ (variant # "part_002" /\ failedChecks # 0) =>
       /\ failedChecks = 1
       /\ mainState \in {"exit1", "uncaught"}
       /\ \A w \in WorkerIds : wpc[w] = "none"

\* C17 witness: part_004 found one of its two endpoints up and the other
\* down, and has aborted without a worker.
C17_Witness ==
  /\ versionOk # {}
  /\ versionOk # Endpoints(variant)
  /\ failedChecks = 1
  /\ mainState = "uncaught"
  /\ \A w \in WorkerIds : wpc[w] = "none"

\* C18, as claimed: a worker that leaves its backoff delay does not go
\* straight into another attempt (derivation, then getBalance) for the phrase
\* whose attempt failed.
C18_NoRetryOfSameCandidate ==
  [][\A w \in WorkerIds :
       wpc[w] = "backoff" => wpc'[w] \notin {"deriving", "probing"}]_vars

\* C19, as claimed: when the program has exited with code 0, the record of
\* every Found message a worker had posted is in found.json.
C19_PostedFoundIsRecorded ==
  mainState = "exit0" => lostFound \subseteq Range(foundJson.content)

\* The tried-set the workers of this run were given: the keys of the
\* logs.json the run loaded, as long as the file holds what was appended.
SnapshotAtSpawn ==
  (IF startedEmpty THEN {} ELSE ObjectKeys(FixtureLogs.triedWallets))
  \cup {KeyOf(BaseCounter + i) : i \in 1..Len(arrivalsAtLoad)}

\* C20: while the program runs, the tried-set of every worker that has been
\* spawned is the snapshot it was given at spawn, whatever the workers and
\* the Supervisor have done since: a phrase probed or recorded in this run
\* is in no worker's set.
C20_SnapshotFixedAtSpawn ==
  \A w \in WorkerIds :
    (mainState = "running" /\ wpc[w] # "none") =>
      /\ wTriedSet[w] = IF Dedups(variant) THEN triedSet ELSE {}
      /\ (Dedups(variant) /\ ~ledgerLost) => wTriedSet[w] = SnapshotAtSpawn
      /\ \A i \in (Len(arrivalsAtLoad) + 1)..Len(arrivals) :
           arrivals[i] \notin wTriedSet[w]

\* C20 witness: a worker with a snapshot that is not empty has had its probe
\* of a phrase answered and the Supervisor has recorded the phrase; the
\* worker is still running.
C20_Witness ==
  /\ mainState = "running"
  /\ Len(arrivals) > Len(arrivalsAtLoad)
  /\ \E w \in WorkerIds :
       /\ wpc[w] = "sleep"
       /\ wTriedSet[w] # {}
       /\ arrivals[Len(arrivals)] \notin wTriedSet[w]

\* String.prototype.split(' ') of a phrase that is not empty, from the
\* character at position i on, "word" being the characters of the current
\* word read so far.
RECURSIVE SplitFrom(_, _, _)
SplitFrom(str, i, word) ==
  IF i > Len(str) THEN <<word>>
  ELSE IF SubSeq(str, i, i) = " "
       THEN <<word>> \o SplitFrom(str, i + 1, "")
       ELSE SplitFrom(str, i + 1, word \o SubSeq(str, i, i))

\* The words of a phrase (none for the empty phrase).
Words(phrase) == IF phrase = "" THEN <<>> ELSE SplitFrom(phrase, 1, "")

\* The position of the first draw of index i.
FirstDrawn(drawn, i) ==
  CHOOSE p \in 1..Len(drawn) :
    /\ drawn[p] = i
    /\ \A q \in 1..(p - 1) : drawn[q] # i

\* C21: a call getRandomSeedPhrase(vocab, k) with k <= N that has returned
\* has returned exactly k words, which are the words at k pairwise distinct
\* indices that were drawn, listed in the order of their first draws.
C21_DistinctIndicesInDrawOrder ==
  (gen.returned /\ gen.length <= Len(gen.vocab)) =>
    LET k == gen.length
        ws == Words(gen.phrase)
    IN
    /\ Len(ws) = k
    /\ \E ix \in [1..k -> Range(gen.drawn)] :
         /\ \A a, b \in 1..k :
              a < b => /\ ix[a] # ix[b]
                       /\ FirstDrawn(gen.drawn, ix[a]) < FirstDrawn(gen.drawn, ix[b])
         /\ \A a \in 1..k : ws[a] = gen.vocab[ix[a] + 1]

\* C21 witness: a call for three of the four words has returned after a
\* draw that repeated an index, the indices not drawn in rising order.
C21_Witness ==
  /\ gen.returned
  /\ gen.length = 3
  /\ Len(gen.drawn) > gen.length
  /\ gen.drawn[1] > gen.drawn[2]
  /\ Len(Words(gen.phrase)) = 3

\* The sequence a is the beginning of the sequence b.
IsPrefix(a, b) ==
  /\ Len(a) <= Len(b)
  /\ \A i \in 1..Len(a) : a[i] = b[i]

\* C22, as claimed: every step leaves the records of found.json as they are
\* and where they are: the content before is a prefix of the content after.
\* The file changes in a saveFoundWallet call only, and a call that changes
\* the file adds exactly one record, the record of the call, at the end.
C22_FoundLedgerAppendOnly ==
  [][/\ IsPrefix(foundJson.content, foundJson'.content)
     /\ foundJson'.content # foundJson.content =>
          \E w \in WorkerIds :
            /\ inbox[w] # <<>>
            /\ Head(inbox[w]).type = "saveFoundWallet"
            /\ foundJson'.content =
                 Append(foundJson.content,
                        FoundRecord(Head(inbox[w]).pubkey, Head(inbox[w]).seedPhrase,
                                    Head(inbox[w]).balance))]_vars

\* C23, as claimed: every Found message and every found record has a
\* positive balance, and every Tried message and every tried record (in
\* logs.json, the batch, the query queue, tried_wallets) has balance 0.
C23_BalanceMatchesKind ==
  /\ \A o \in Durable \cup Held :
       IF o.kind = "found" THEN o.balance > 0 ELSE o.balance = 0
  /\ \A w \in WorkerIds : \A i \in DOMAIN inbox[w] :
       IF inbox[w][i].type = "saveFoundWallet"
       THEN inbox[w][i].balance > 0
       ELSE inbox[w][i].balance = 0

\* Of a pool of n workers of part_004, those given endpoint number u.
WorkersOn(n, u) ==
  {i \in 0..(n - 1) : rpcUrl("part_004", i) = RPC_URLS[u]}

\* For every pool size up to the 20 workers of part_004, the numbers of
\* workers of any two endpoints differ by one at most.
AssignmentBalanced ==
  \A n \in 0..numWorkers("part_004") : \A u, v \in 1..Len(RPC_URLS) :
    Cardinality(WorkersOn(n, u)) <= Cardinality(WorkersOn(n, v)) + 1

\* C24: in part_004 the worker with 0-based number i (workerId i + 1) holds
\* the endpoint RPC_URLS[i mod M], the assignment is balanced for every pool
\* size, and the Connection of every checkWallet call of a worker, first
\* probe or later, is to the endpoint the worker holds.
C24_RoundRobinEndpoints ==
  variant = "part_004" =>
    \A w \in WorkerIds :
      /\ (mainState = "running" /\ wpc[w] # "none") =>
           /\ wRpcUrl[w] = RPC_URLS[((w - 1) % Len(RPC_URLS)) + 1]
           /\ AssignmentBalanced
      /\ wConn[w] # "" => wConn[w] = wRpcUrl[w]

\* C24 witness: part_004 has two workers probing at the same time, one on
\* each of the two endpoints.
C24_Witness ==
  /\ variant = "part_004"
  /\ wpc[1] = "probing" /\ wConn[1] = RPC_URLS[1]
  /\ wpc[2] = "probing" /\ wConn[2] = RPC_URLS[2]

\* C25: a worker whose probe is over (answered or failed) is next in the
\* 2000 ms delay or in the backoff delay, unless its thread has ended; a
\* worker calls getBalance only out of the derivation, which it enters only
\* from the start of its thread, from the 2000 ms delay or from the backoff
\* delay; and a thread never returns to its start.  So a sleep lies between
\* any two probes of a worker.
C25_SleepBetweenProbes ==
  [][\A w \in WorkerIds :
       /\ (wpc[w] = "probing" /\ wpc'[w] # "probing") =>
            wpc'[w] \in {"sleep", "backoff", "exited", "crashed", "terminated",
                         "dead"}
       /\ (wpc[w] # "probing" /\ wpc'[w] = "probing") => wpc[w] = "deriving"
       /\ (wpc[w] # "deriving" /\ wpc'[w] = "deriving") =>
            wpc[w] \in {"loop", "sleep", "backoff"}
       /\ (wpc[w] = "probing" /\ wpc'[w] = "probing") =>
            (wcand'[w] = wcand[w] /\ wConn'[w] = wConn[w])
       /\ (wpc[w] # "loop" /\ wpc'[w] = "loop") => wpc[w] = "none"]_vars

\* C25 witness: the one worker of part_003 has had a probe answered, has
\* slept and is in its second probe of the run.
C25_Witness ==
  /\ variant = "part_003"
  /\ probes = 2
  /\ wpc[1] = "probing"
  /\ (inbox[1] # <<>> \/ Len(arrivals) > Len(arrivalsAtLoad) \/ FoundHandled)

\* C26: in part_002 every failed getVersion of the startup check is counted
\* and followed by a sleep (of attempt * 5000 ms), the count never exceeds
\* maxAttempts = 5, so that the check ends after five attempts at most, and
\* once five attempts have failed the program is in the last sleep (no
\* getVersion call is under way) or has failed with the uncaught error (or
\* was stopped from outside), and no worker exists.
C26_FiveAttemptsThenFail ==
  variant = "part_002" =>
    /\ failedChecks <= maxAttempts
    /\ mainState = "init" =>
         /\ attempt = failedChecks
         /\ checkSleep \in {0, failedChecks * AttemptSleep}
    /\ failedChecks = maxAttempts =>
         /\ mainState \in {"init", "uncaught", "killed"}
         /\ mainState = "init" => checkSleep = maxAttempts * AttemptSleep
         /\ \A w \in WorkerIds : wpc[w] = "none"
         /\ triedSet = {} /\ batchData = <<>>

\* C26 witness: part_002 has failed after five failed attempts, without a
\* worker.
C26_Witness ==
  /\ variant = "part_002"
  /\ failedChecks = maxAttempts
  /\ mainState = "uncaught"
  /\ \A w \in WorkerIds : wpc[w] = "none"

====
